---- MODULE Spec2Model ----
(***************************************************************************)
(* A model of src/main.py: the FastAPI relay that authenticates a bearer   *)
(* token, stages uploaded files in media/, renames code files to .txt,     *)
(* uploads them to the generative service and returns the generated text.  *)
(*                                                                         *)
(* Strings that the code inspects (file names, paths) are sequences of     *)
(* one-character strings, so that suffix(), lower() and with_suffix() are  *)
(* computed as pathlib computes them.  Paths are written relative to       *)
(* media_dir ("media/" is a constant prefix of every staged path).         *)
(***************************************************************************)
EXTENDS Integers, Sequences, FiniteSets, TLC

\* ------------------------------------------------------------------ bounds
NumReq == 2            \* requests in one run
NumWorkers == 2        \* server worker processes sharing media/
MaxFiles == 2          \* files in one /upload request
MaxLen == 5            \* longest file name the normalizer is tried on
NormCalls == 2         \* successive applications of rename_if_code

Requests == 1..NumReq
Workers == 1..NumWorkers

\* --------------------------------------------------------- string helpers
UpperCase == <<"A","B","C","D","E","F","G","H","I","J","K","L","M",
               "N","O","P","Q","R","S","T","U","V","W","X","Y","Z">>
LowerCase == <<"a","b","c","d","e","f","g","h","i","j","k","l","m",
               "n","o","p","q","r","s","t","u","v","w","x","y","z">>

\* str.lower() on one character
LowerChar(c) ==
  IF \E i \in 1..26 : UpperCase[i] = c
  THEN LowerCase[CHOOSE i \in 1..26 : UpperCase[i] = c]
  ELSE c

\* a faulty variant of lower: the string is left as it is, so the extension
\* is compared case-sensitively
lower_CaseSensitive(s) == s

\* str.lower()
lower(s) == [i \in 1..Len(s) |-> LowerChar(s[i])]

\* str.rfind(c), 1-based; 0 when c does not occur
rfind(s, c) ==
  LET I == {i \in 1..Len(s) : s[i] = c}
  IN IF I = {} THEN 0 ELSE CHOOSE i \in I : \A j \in I : j <= i

\* PurePath.name: the final path component
name(p) == SubSeq(p, rfind(p, "/") + 1, Len(p))

\* PurePath.suffix: from the last dot of the name, unless that dot is the
\* first or the last character of the name
suffix(p) ==
  LET n == name(p)
      i == rfind(n, ".")
  IN IF 1 < i /\ i < Len(n) THEN SubSeq(n, i, Len(n)) ELSE <<>>

\* a faulty variant of with_suffix: the new suffix is appended, the old one kept
with_suffix_Append(p, sfx) == p \o sfx

\* PurePath.with_suffix
with_suffix(p, sfx) ==
  LET old == suffix(p)
  IN IF old = <<>> THEN p \o sfx
     ELSE SubSeq(p, 1, Len(p) - Len(old)) \o sfx

TXT == <<".","t","x","t">>

\* a faulty variant of CODE_EXTENSIONS: .txt is itself listed as code
CODE_EXTENSIONS_WithTxt ==
  { <<".","p","y">>, <<".","j","s">>, <<".","t","s">>, <<".","j","s","x">>,
    <<".","t","s","x">>, <<".","j","a","v","a">>, <<".","c">>,
    <<".","c","p","p">>, <<".","c","s">>, <<".","h","t","m","l">>,
    <<".","c","s","s">>, <<".","j","s","o","n">>, <<".","x","m","l">>,
    <<".","s","h">>, <<".","r","b">>, <<".","p","h","p">>, <<".","g","o">>,
    <<".","r","s">>, <<".","s","q","l">>, <<".","y","a","m","l">>,
    <<".","y","m","l">>, <<".","t","x","t">> }

CODE_EXTENSIONS ==
  { <<".","p","y">>, <<".","j","s">>, <<".","t","s">>, <<".","j","s","x">>,
    <<".","t","s","x">>, <<".","j","a","v","a">>, <<".","c">>,
    <<".","c","p","p">>, <<".","c","s">>, <<".","h","t","m","l">>,
    <<".","c","s","s">>, <<".","j","s","o","n">>, <<".","x","m","l">>,
    <<".","s","h">>, <<".","r","b">>, <<".","p","h","p">>, <<".","g","o">>,
    <<".","r","s">>, <<".","s","q","l">>, <<".","y","a","m","l">>,
    <<".","y","m","l">> }

\* ------------------------------------------------------------ file system
\* The staging directory: a function from the paths that exist to their bytes.
NoFiles == [p \in {} |-> <<>>]

exists(fs, p) == p \in DOMAIN fs

\* open(path, "wb") needs the parent directory; only media/ itself is ever
\* created, so a name with a directory part has no parent to be written in.
parent_exists(p) == rfind(p, "/") = 0

\* a faulty variant of write_file: an existing file of that name is kept
write_file_KeepExisting(fs, p, data) ==
  [q \in DOMAIN fs \cup {p} |-> IF q \in DOMAIN fs THEN fs[q] ELSE data]

\* open(path, "wb") + shutil.copyfileobj: create or overwrite
write_file(fs, p, data) ==
  [q \in DOMAIN fs \cup {p} |-> IF q = p THEN data ELSE fs[q]]

\* Path.rename (POSIX): the target is replaced silently
rename_file(fs, src, dst) ==
  [q \in (DOMAIN fs \ {src}) \cup {dst} |-> IF q = dst THEN fs[src] ELSE fs[q]]

\* a faulty variant of unlink: missing_ok=True
unlink_MissingOk(fs, p) ==
  [raised |-> FALSE, existed |-> exists(fs, p),
   fs |-> [q \in DOMAIN fs \ {p} |-> fs[q]]]

\* Path.unlink(): FileNotFoundError when the file is not there
unlink(fs, p) ==
  [raised |-> ~exists(fs, p), existed |-> exists(fs, p),
   fs |-> [q \in DOMAIN fs \ {p} |-> fs[q]]]

\* rename_if_code, on the file system fs: the path returned, the file system
\* left, and whether Path.rename raised (the file to rename is gone)
rename_if_code(fs, file_path) ==
  LET ext == lower(suffix(file_path))
  IN IF ext \in CODE_EXTENSIONS
     THEN LET txt_path == with_suffix(file_path, TXT)
          IN IF exists(fs, file_path)
             THEN [raised |-> FALSE, renamed |-> TRUE, path |-> txt_path,
                   fs |-> rename_file(fs, file_path, txt_path)]
             ELSE [raised |-> TRUE, renamed |-> FALSE, path |-> file_path,
                   fs |-> fs]
     ELSE [raised |-> FALSE, renamed |-> FALSE, path |-> file_path, fs |-> fs]

\* ------------------------------------------------- the external services
\* The identity provider, as get_current_user sees it: a token it accepts, a
\* token it rejects (the SDK raises), a token for which it reports no user.
NoUserData == [id |-> "None"]

supabase_get_user(token) ==
  IF token = <<"good">>
  THEN [raised |-> FALSE, msg |-> "",
        user |-> [id |-> "u1", email |-> "u1@example.org",
                  user_metadata |-> [full_name |-> "User One"]]]
  ELSE IF token = <<"orphan">>
  THEN [raised |-> FALSE, msg |-> "", user |-> NoUserData]
  ELSE [raised |-> TRUE, msg |-> "invalid JWT", user |-> NoUserData]

\* dict.get(key): None when the key is missing
metadata_get(md, key) == IF key \in DOMAIN md THEN md[key] ELSE "None"

\* str.replace("Bearer ", "") on a header given as a sequence of words
strip_bearer(authorization) ==
  SelectSeq(authorization, LAMBDA w : w # "Bearer ")

NoUser == [id |-> "None", email |-> "None", name |-> "None", avatar_url |-> "None"]

\* a faulty variant of get_current_user: the "if not user_data" check is missing
get_current_user_NoUserCheck(authorization) ==
  IF authorization = <<>>
  THEN [status |-> 401, detail |-> <<"Authorization header missing">>,
        user |-> NoUser]
  ELSE LET resp == supabase_get_user(strip_bearer(authorization))
       IN IF resp.raised
          THEN [status |-> 401,
                detail |-> <<"Authentication failed: ", resp.msg>>,
                user |-> NoUser]
          ELSE [status |-> 200, detail |-> <<>>, user |-> NoUser]

\* get_current_user: 401 with a detail, or the User
get_current_user(authorization) ==
  IF authorization = <<>>
  THEN [status |-> 401, detail |-> <<"Authorization header missing">>,
        user |-> NoUser]
  ELSE LET resp == supabase_get_user(strip_bearer(authorization))
       IN IF resp.raised
          THEN [status |-> 401,
                detail |-> <<"Authentication failed: ", resp.msg>>,
                user |-> NoUser]
          ELSE IF resp.user = NoUserData
          THEN \* the HTTPException raised in the try is caught by the except
               [status |-> 401,
                detail |-> <<"Authentication failed: ", "401: Invalid token">>,
                user |-> NoUser]
          ELSE [status |-> 200, detail |-> <<>>,
                user |-> [id |-> resp.user.id, email |-> resp.user.email,
                          name |-> metadata_get(resp.user.user_metadata, "full_name"),
                          avatar_url |-> metadata_get(resp.user.user_metadata, "avatar_url")]]

\* a faulty variant of files_upload: the request's bytes are sent from memory, not
\* read back from the staging directory
files_upload_OwnBytes(fs, p, ok, id) ==
  IF ~exists(fs, p)
  THEN [raised |-> TRUE, msg |-> "FileNotFoundError",
        ref |-> [id |-> id, path |-> p, data |-> <<>>]]
  ELSE IF ~ok
  THEN [raised |-> TRUE, msg |-> "upload failed",
        ref |-> [id |-> id, path |-> p, data |-> id]]
  ELSE [raised |-> FALSE, msg |-> "",
        ref |-> [id |-> id, path |-> p, data |-> id]]

\* client.files.upload(file=path): reads the file at path and sends it; the
\* service accepts it (ok) or the SDK raises.  id names the call: request
\* and position, which are also the bytes that request submitted there.
files_upload(fs, p, ok, id) ==
  IF ~exists(fs, p)
  THEN [raised |-> TRUE, msg |-> "FileNotFoundError",
        ref |-> [id |-> id, path |-> p, data |-> <<>>]]
  ELSE IF ~ok
  THEN [raised |-> TRUE, msg |-> "upload failed",
        ref |-> [id |-> id, path |-> p, data |-> fs[p]]]
  ELSE [raised |-> FALSE, msg |-> "",
        ref |-> [id |-> id, path |-> p, data |-> fs[p]]]

FilePart(ref) == [kind |-> "file", ref |-> ref]
TextPart(text) == [kind |-> "text", text |-> text]

\* a faulty variant of upload_contents: the prompt is put before the files
upload_contents_PromptFirst(uploaded, prompt) ==
  <<TextPart(prompt), TextPart(<<"\n\n">>)>> \o [i \in 1..Len(uploaded) |-> FilePart(uploaded[i])]

\* contents=[*uploaded_files, "\n\n", prompt]
upload_contents(uploaded, prompt) ==
  [i \in 1..Len(uploaded) |-> FilePart(uploaded[i])]
    \o <<TextPart(<<"\n\n">>), TextPart(prompt)>>

\* the f-string of analyze_screen around the prompt
analyze_contents(uploaded_file, prompt) ==
  << FilePart(uploaded_file),
     TextPart(<<"Analyze this screenshot and help with: ">> \o prompt \o
              <<". Focus on any code, errors, UI elements, or technical content visible. Provide specific and actionable advice based on what you can see.">>) >>

\* f"Error uploading file {file.filename}: {str(e)}"
upload_error(filename, msg) ==
  <<"Error uploading file ">> \o filename \o <<": ", msg>>

\* ------------------------------------------------------------- responses
NoResponse == [status |-> 0, kind |-> "none", body |-> <<>>]
Reply(text) == [status |-> 200, kind |-> "reply", body |-> text]
Error(msg) == [status |-> 200, kind |-> "error", body |-> msg]
Unauthorized(detail) == [status |-> 401, kind |-> "detail", body |-> detail]
UserInfo(user) == [status |-> 200, kind |-> "user", body |-> <<user>>]
\* an exception that leaves the handler: the server's 500
Fault(exc) == [status |-> 500, kind |-> "fault", body |-> <<exc>>]

ModelOutput == <<"model output">>

\* ---------------------------------------------------------------- inputs
AuthHeaders ==
  { <<>>, <<"Bearer ", "good">>, <<"Bearer ", "expired">>, <<"Bearer ", "orphan">> }

FileNames ==
  { <<"a",".","P","Y">>, <<"a",".","t","x","t">>, <<"x","/","a",".","c">> }

Prompts == { <<"summarize">> }

FileLists == UNION { [1..n -> FileNames] : n \in 1..MaxFiles }

media(filename) == filename
screenshot_(filename) ==
  <<"s","c","r","e","e","n","s","h","o","t","_">> \o filename

\* ----------------------------------------------------------------- state
VARIABLES
  pc,             \* per request: where its handling stands
  req,            \* per request: endpoint, Authorization header, files, prompt, worker
  file_idx,       \* /upload: position of the for loop over files
  final_path,     \* /upload: final_path; /analyze-screen: screenshot_path
  uploaded_files, \* /upload: uploaded_files; /analyze-screen: <<uploaded_file>>
  response,       \* per request: what the client receives
  disk,           \* the files in media/, shared by all requests
  staged,         \* per request: the paths it wrote to media/, in order
  upload_calls,   \* per request: its client.files.upload calls, in order
  gen_calls,      \* per request: the contents of its generate_content calls
  unlink_calls,   \* per request: its Path.unlink calls
  norm_in,        \* normalizer run: the path given
  norm_fs,        \* normalizer run: its file system
  norm_log        \* normalizer run: the result of each application

reqvars == <<pc, req, file_idx, final_path, uploaded_files, response, disk,
             staged, upload_calls, gen_calls, unlink_calls>>
normvars == <<norm_in, norm_fs, norm_log>>
vars == <<pc, req, file_idx, final_path, uploaded_files, response, disk,
          staged, upload_calls, gen_calls, unlink_calls,
          norm_in, norm_fs, norm_log>>

NoRequest ==
  [endpoint |-> "none", authorization |-> <<>>, files |-> <<>>,
   prompt |-> <<>>, worker |-> 0]

InitRequests ==
  /\ pc = [r \in Requests |-> "idle"]
  /\ req = [r \in Requests |-> NoRequest]
  /\ file_idx = [r \in Requests |-> 0]
  /\ final_path = [r \in Requests |-> <<>>]
  /\ uploaded_files = [r \in Requests |-> <<>>]
  /\ response = [r \in Requests |-> NoResponse]
  /\ disk = NoFiles
  /\ staged = [r \in Requests |-> <<>>]
  /\ upload_calls = [r \in Requests |-> <<>>]
  /\ gen_calls = [r \in Requests |-> <<>>]
  /\ unlink_calls = [r \in Requests |-> <<>>]

Init ==
  /\ InitRequests
  /\ norm_in = <<>>
  /\ norm_fs = NoFiles
  /\ norm_log = <<>>

\* ------------------------------------------------------------- scheduling
\* upload_files and analyze_screen are coroutines that never await: once one
\* has started on a worker's event loop, nothing else runs on that loop until
\* it returns.  Requests interleave inside these handlers only when they are
\* served by different worker processes.  ask_gemini is a plain function and
\* runs on a thread.
AsyncBody ==
  { "up_write", "up_rename", "up_upload", "up_generate",
    "an_write", "an_upload", "an_generate", "an_unlink" }

LoopFree(r) ==
  \A q \in Requests \ {r} :
     req[q].worker = req[r].worker => pc[q] \notin AsyncBody

Finish(r, resp) ==
  /\ pc' = [pc EXCEPT ![r] = "done"]
  /\ response' = [response EXCEPT ![r] = resp]

\* ---------------------------------------------------------------- arrival
Receive(r, endpoint, files) ==
  /\ pc[r] = "idle"
  /\ \E a \in AuthHeaders, w \in Workers, p \in Prompts :
       req' = [req EXCEPT ![r] =
                 [endpoint |-> endpoint, authorization |-> a, files |-> files,
                  prompt |-> IF endpoint = "/auth/user" THEN <<>> ELSE p,
                  worker |-> w]]
  /\ pc' = [pc EXCEPT ![r] = "auth"]
  /\ UNCHANGED <<file_idx, final_path, uploaded_files, response, disk, staged,
                 upload_calls, gen_calls, unlink_calls, normvars>>

ReceiveAuthUser(r) == Receive(r, "/auth/user", <<>>)
ReceiveAsk(r) == Receive(r, "/ask", <<>>)
ReceiveUpload(r) == \E fl \in FileLists : Receive(r, "/upload", fl)
ReceiveAnalyze(r) == \E f \in FileNames : Receive(r, "/analyze-screen", <<f>>)

HandlerEntry(endpoint) ==
  CASE endpoint = "/auth/user" -> "get_user_info"
    [] endpoint = "/ask" -> "ask_gemini"
    [] endpoint = "/upload" -> "upload_files"
    [] endpoint = "/analyze-screen" -> "analyze_screen"

\* Depends(get_current_user): resolved before the handler is called
Authenticate(r) ==
  /\ pc[r] = "auth"
  /\ LoopFree(r)
  /\ LET u == get_current_user(req[r].authorization)
     IN IF u.status = 401
        THEN Finish(r, Unauthorized(u.detail))
        ELSE /\ pc' = [pc EXCEPT ![r] = HandlerEntry(req[r].endpoint)]
             /\ UNCHANGED response
  /\ UNCHANGED <<req, file_idx, final_path, uploaded_files, disk, staged,
                 upload_calls, gen_calls, unlink_calls, normvars>>

\* ------------------------------------------------------------ /auth/user
GetUserInfo(r) ==
  /\ pc[r] = "get_user_info"
  /\ LoopFree(r)
  /\ Finish(r, UserInfo(get_current_user(req[r].authorization).user))
  /\ UNCHANGED <<req, file_idx, final_path, uploaded_files, disk, staged,
                 upload_calls, gen_calls, unlink_calls, normvars>>

\* ------------------------------------------------------------------ /ask
\* generate_content is called outside any try: what it raises leaves the
\* handler.
AskGemini(r) ==
  /\ pc[r] = "ask_gemini"
  /\ \E ok \in BOOLEAN :
       /\ gen_calls' = [gen_calls EXCEPT ![r] =
                          Append(@, [contents |-> <<TextPart(req[r].prompt)>>,
                                     ok |-> ok])]
       /\ Finish(r, IF ok THEN Reply(ModelOutput) ELSE Fault("generation failed"))
  /\ UNCHANGED <<req, file_idx, final_path, uploaded_files, disk, staged,
                 upload_calls, unlink_calls, normvars>>

\* --------------------------------------------------------------- /upload
\* uploaded_files = []; the for loop starts at the first file
UploadFiles(r) ==
  /\ pc[r] = "upload_files"
  /\ LoopFree(r)
  /\ uploaded_files' = [uploaded_files EXCEPT ![r] = <<>>]
  /\ file_idx' = [file_idx EXCEPT ![r] = 1]
  /\ pc' = [pc EXCEPT ![r] = "up_write"]
  /\ UNCHANGED <<req, final_path, response, disk, staged, upload_calls,
                 gen_calls, unlink_calls, normvars>>

\* original_path = media_dir / file.filename; open(...,"wb"); copyfileobj.
\* The write is outside the try: a failing open leaves the handler.
UpWrite(r) ==
  /\ pc[r] = "up_write"
  /\ LET original_path == media(req[r].files[file_idx[r]])
     IN IF parent_exists(original_path)
        THEN /\ disk' = write_file(disk, original_path, <<r, file_idx[r]>>)
             /\ staged' = [staged EXCEPT ![r] = Append(@, original_path)]
             /\ final_path' = [final_path EXCEPT ![r] = original_path]
             /\ pc' = [pc EXCEPT ![r] = "up_rename"]
             /\ UNCHANGED response
        ELSE /\ Finish(r, Fault("FileNotFoundError"))
             /\ UNCHANGED <<disk, staged, final_path>>
  /\ UNCHANGED <<req, file_idx, uploaded_files, upload_calls, gen_calls,
                 unlink_calls, normvars>>

\* final_path = rename_if_code(original_path), inside the try
UpRename(r) ==
  /\ pc[r] = "up_rename"
  /\ LET res == rename_if_code(disk, final_path[r])
     IN IF res.raised
        THEN /\ Finish(r, Error(upload_error(req[r].files[file_idx[r]],
                                             "FileNotFoundError")))
             /\ UNCHANGED <<disk, final_path>>
        ELSE /\ disk' = res.fs
             /\ final_path' = [final_path EXCEPT ![r] = res.path]
             /\ pc' = [pc EXCEPT ![r] = "up_upload"]
             /\ UNCHANGED response
  /\ UNCHANGED <<req, file_idx, uploaded_files, staged, upload_calls, gen_calls,
                 unlink_calls, normvars>>

\* a faulty variant of up_after_failure: the failed file is skipped and the
\* loop goes on
up_after_failure_Continue(r, msg) ==
  /\ file_idx' = [file_idx EXCEPT ![r] = @ + 1]
  /\ pc' = [pc EXCEPT ![r] =
              IF file_idx[r] < Len(req[r].files) THEN "up_write" ELSE "up_generate"]
  /\ UNCHANGED <<response, uploaded_files>>

\* what follows a failed upload of one file: return the error at once
up_after_failure(r, msg) ==
  /\ Finish(r, Error(upload_error(req[r].files[file_idx[r]], msg)))
  /\ UNCHANGED <<file_idx, uploaded_files>>

\* uploaded_file = client.files.upload(file=final_path); append; next file
UpUpload(r) ==
  /\ pc[r] = "up_upload"
  /\ \E ok \in BOOLEAN :
       LET res == files_upload(disk, final_path[r], ok, <<r, file_idx[r]>>)
       IN /\ upload_calls' = [upload_calls EXCEPT ![r] =
                                Append(@, [file |-> file_idx[r], ok |-> ~res.raised,
                                           ref |-> res.ref])]
          /\ IF res.raised
             THEN up_after_failure(r, res.msg)
             ELSE /\ uploaded_files' = [uploaded_files EXCEPT ![r] = Append(@, res.ref)]
                  /\ file_idx' = [file_idx EXCEPT ![r] = @ + 1]
                  /\ pc' = [pc EXCEPT ![r] =
                              IF file_idx[r] < Len(req[r].files)
                              THEN "up_write" ELSE "up_generate"]
                  /\ UNCHANGED response
  /\ UNCHANGED <<req, final_path, disk, staged, gen_calls, unlink_calls, normvars>>

\* the generation call of upload_files, in its own try
UpGenerate(r) ==
  /\ pc[r] = "up_generate"
  /\ \E ok \in BOOLEAN :
       /\ gen_calls' = [gen_calls EXCEPT ![r] =
                          Append(@, [contents |-> upload_contents(uploaded_files[r],
                                                                  req[r].prompt),
                                     ok |-> ok])]
       /\ Finish(r, IF ok THEN Reply(ModelOutput) ELSE Error(<<"generation failed">>))
  /\ UNCHANGED <<req, file_idx, final_path, uploaded_files, disk, staged,
                 upload_calls, unlink_calls, normvars>>

\* ------------------------------------------------------- /analyze-screen
\* the whole body is inside one try whose except returns {"error": str(e)}
AnalyzeScreen(r) ==
  /\ pc[r] = "analyze_screen"
  /\ LoopFree(r)
  /\ final_path' = [final_path EXCEPT ![r] = screenshot_(req[r].files[1])]
  /\ pc' = [pc EXCEPT ![r] = "an_write"]
  /\ UNCHANGED <<req, file_idx, uploaded_files, response, disk, staged,
                 upload_calls, gen_calls, unlink_calls, normvars>>

AnWrite(r) ==
  /\ pc[r] = "an_write"
  /\ IF parent_exists(final_path[r])
     THEN /\ disk' = write_file(disk, final_path[r], <<r, 1>>)
          /\ staged' = [staged EXCEPT ![r] = Append(@, final_path[r])]
          /\ pc' = [pc EXCEPT ![r] = "an_upload"]
          /\ UNCHANGED response
     ELSE /\ Finish(r, Error(<<"FileNotFoundError">>))
          /\ UNCHANGED <<disk, staged>>
  /\ UNCHANGED <<req, file_idx, final_path, uploaded_files, upload_calls,
                 gen_calls, unlink_calls, normvars>>

AnUpload(r) ==
  /\ pc[r] = "an_upload"
  /\ \E ok \in BOOLEAN :
       LET res == files_upload(disk, final_path[r], ok, <<r, 1>>)
       IN /\ upload_calls' = [upload_calls EXCEPT ![r] =
                                Append(@, [file |-> 1, ok |-> ~res.raised,
                                           ref |-> res.ref])]
          /\ IF res.raised
             THEN /\ Finish(r, Error(<<res.msg>>))
                  /\ UNCHANGED uploaded_files
             ELSE /\ uploaded_files' = [uploaded_files EXCEPT ![r] = <<res.ref>>]
                  /\ pc' = [pc EXCEPT ![r] = "an_generate"]
                  /\ UNCHANGED response
  /\ UNCHANGED <<req, file_idx, final_path, disk, staged, gen_calls,
                 unlink_calls, normvars>>

AnGenerate(r) ==
  /\ pc[r] = "an_generate"
  /\ \E ok \in BOOLEAN :
       /\ gen_calls' = [gen_calls EXCEPT ![r] =
                          Append(@, [contents |-> analyze_contents(uploaded_files[r][1],
                                                                   req[r].prompt),
                                     ok |-> ok])]
       /\ IF ok
          THEN /\ pc' = [pc EXCEPT ![r] = "an_unlink"]
               /\ UNCHANGED response
          ELSE Finish(r, Error(<<"generation failed">>))
  /\ UNCHANGED <<req, file_idx, final_path, uploaded_files, disk, staged,
                 upload_calls, unlink_calls, normvars>>

\* what analyze_screen returns once the generation call has succeeded:
\* screenshot_path.unlink() first, then the reply
an_cleanup_and_reply(r, res) ==
  IF res.raised THEN Error(<<"FileNotFoundError">>) ELSE Reply(ModelOutput)

AnUnlink(r) ==
  /\ pc[r] = "an_unlink"
  /\ LET res == unlink(disk, final_path[r])
     IN /\ disk' = res.fs
        /\ unlink_calls' = [unlink_calls EXCEPT ![r] =
                              Append(@, [path |-> final_path[r],
                                         existed |-> res.existed])]
        /\ Finish(r, an_cleanup_and_reply(r, res))
  /\ UNCHANGED <<req, file_idx, final_path, uploaded_files, staged,
                 upload_calls, gen_calls, normvars>>

\* ------------------------------------------------- the next-state relation
Next ==
  \E r \in Requests :
    \/ ReceiveAuthUser(r)
    \/ ReceiveAsk(r)
    \/ ReceiveUpload(r)
    \/ ReceiveAnalyze(r)
    \/ Authenticate(r)
    \/ GetUserInfo(r)
    \/ AskGemini(r)
    \/ UploadFiles(r)
    \/ UpWrite(r)
    \/ UpRename(r)
    \/ UpUpload(r)
    \/ UpGenerate(r)
    \/ AnalyzeScreen(r)
    \/ AnWrite(r)
    \/ AnUpload(r)
    \/ AnGenerate(r)
    \/ AnUnlink(r)

Spec == Init /\ [][Next]_vars

\* ------------------------------------------- the normalizer on its own
\* rename_if_code applied NormCalls times in a row to a staged file, for
\* every file name over NormChars up to MaxLen characters.
NormChars == {".", "p", "y", "P", "t", "x", "s"}

NormPaths ==
  UNION { [1..n -> NormChars] : n \in 1..MaxLen } \ { <<".">>, <<".", ".">> }

InitNorm ==
  /\ InitRequests
  /\ norm_in \in NormPaths
  /\ norm_log = <<>>
  /\ \E other \in BOOLEAN :
       \* the file is staged; a file of the .txt name may be there already
       norm_fs = IF other
                 THEN write_file(write_file(NoFiles, with_suffix(norm_in, TXT), <<0, 0>>),
                                 norm_in, <<1, 1>>)
                 ELSE write_file(NoFiles, norm_in, <<1, 1>>)

NormApply ==
  /\ Len(norm_log) < NormCalls
  /\ LET arg == IF norm_log = <<>> THEN norm_in ELSE norm_log[Len(norm_log)].path
         res == rename_if_code(norm_fs, arg)
     IN /\ norm_log' = Append(norm_log,
                              [arg |-> arg, path |-> res.path, raised |-> res.raised,
                               renamed |-> res.renamed, before |-> norm_fs,
                               after |-> res.fs])
        /\ norm_fs' = res.fs
  /\ UNCHANGED <<norm_in, reqvars>>

NextNorm == NormApply

SpecNorm == InitNorm /\ [][NextNorm]_vars

\* =================================================================== C6, C7
\* Two characters are the same letter, whatever their case.
SameLetter(a, b) ==
  a = b \/ \E i \in 1..26 : {a, b} = {UpperCase[i], LowerCase[i]}

\* The extension of a file name starts at its last dot, when that dot is
\* neither the first nor the last character: 0 when there is none.
ExtAt(n) ==
  LET K == {k \in 2..(Len(n) - 1) :
              n[k] = "." /\ \A j \in (k + 1)..Len(n) : n[j] # "."}
  IN IF K = {} THEN 0 ELSE CHOOSE k \in K : TRUE

HasCodeExt(n) ==
  /\ ExtAt(n) # 0
  /\ \E e \in CODE_EXTENSIONS :
       /\ Len(e) = Len(n) - ExtAt(n) + 1
       /\ \A i \in 1..Len(e) : SameLetter(e[i], n[ExtAt(n) + i - 1])

StemTxt(n) == SubSeq(n, 1, ExtAt(n) - 1) \o <<".", "t", "x", "t">>

\* C6: every application of rename_if_code to a staged path whose extension
\* is, case-insensitively, a code extension returns the same stem with .txt
\* and has moved the file there; for every other path it returns the path it
\* was given and leaves the directory as it was.
C6_RenameIfCode ==
  \A i \in DOMAIN norm_log :
    LET c == norm_log[i]
    IN exists(c.before, c.arg) =>
         IF HasCodeExt(c.arg)
         THEN /\ ~c.raised
              /\ c.renamed
              /\ c.path = StemTxt(c.arg)
              /\ exists(c.after, c.path)
              /\ c.after[c.path] = c.before[c.arg]
              /\ ~exists(c.after, c.arg)
              /\ \A q \in DOMAIN c.before \ {c.arg, c.path} :
                   exists(c.after, q) /\ c.after[q] = c.before[q]
         ELSE /\ ~c.raised
              /\ ~c.renamed
              /\ c.path = c.arg
              /\ c.after = c.before

\* an upper-case code extension has been renamed over an existing .txt file
C6_Witness ==
  /\ norm_log # <<>>
  /\ norm_in = <<"s", ".", "P", "y">>
  /\ norm_log[1].path = <<"s", ".", "t", "x", "t">>
  /\ exists(norm_log[1].before, <<"s", ".", "t", "x", "t">>)
  /\ norm_log[1].after = (<<"s", ".", "t", "x", "t">> :> <<1, 1>>)

\* C7: a second application of rename_if_code returns the path the first one
\* returned and renames nothing.
C7_Idempotent ==
  Len(norm_log) >= 2 =>
    /\ norm_log[2].path = norm_log[1].path
    /\ ~norm_log[2].raised
    /\ ~norm_log[2].renamed
    /\ norm_log[2].after = norm_log[2].before

\* applied twice to a code file: renamed once, then left alone
C7_Witness ==
  /\ Len(norm_log) >= 2
  /\ norm_log[1].renamed
  /\ norm_log[1].path # norm_in
  /\ norm_log[2].path = norm_log[1].path

\* ======================================================================= C1
GenEndpoints == {"/ask", "/upload", "/analyze-screen"}

Last(q) == q[Len(q)]

\* The header is missing, or the provider rejects the token (the last word of
\* the header), or it reports no user for it.
AuthFails(h) ==
  \/ h = <<>>
  \/ supabase_get_user(<<Last(h)>>).raised
  \/ supabase_get_user(<<Last(h)>>).user = NoUserData

\* C1: a request whose authentication fails is answered 401 and never stages
\* a file, uploads a file or calls the model.
C1_UnauthenticatedDoesNothing ==
  \A r \in Requests :
    (pc[r] # "idle" /\ AuthFails(req[r].authorization)) =>
      /\ pc[r] \in {"auth", "done"}
      /\ pc[r] = "done" =>
           /\ response[r].status = 401
           /\ response[r].kind = "detail"
      /\ staged[r] = <<>>
      /\ upload_calls[r] = <<>>
      /\ gen_calls[r] = <<>>
      /\ unlink_calls[r] = <<>>

\* /ask without a header and /upload with a token that has no user, both
\* answered 401
C1_Witness ==
  \E r, q \in Requests :
    /\ req[r].endpoint = "/ask" /\ req[r].authorization = <<>>
    /\ pc[r] = "done" /\ response[r].status = 401
    /\ req[q].endpoint = "/upload"
    /\ req[q].authorization = <<"Bearer ", "orphan">>
    /\ pc[q] = "done" /\ response[q].status = 401

\* ======================================================================= C2
SdkRaised(r) ==
  \/ \E i \in DOMAIN upload_calls[r] : ~upload_calls[r][i].ok
  \/ \E i \in DOMAIN gen_calls[r] : ~gen_calls[r][i].ok

\* C2: on /ask, /upload and /analyze-screen, a request in which an upload or
\* the generation call raised is answered 200 with an error payload.
C2_SdkFailuresCaught ==
  \A r \in Requests :
    (req[r].endpoint \in GenEndpoints /\ SdkRaised(r)) =>
      /\ pc[r] = "done"
      /\ response[r].status = 200
      /\ response[r].kind = "error"

\* ======================================================================= C3
\* C3: when an /analyze-screen request that staged its screenshot completes,
\* the staged file is not in media/.
C3_ScreenshotDeletedOnEveryExit ==
  [][\A r \in Requests :
       (/\ req[r].endpoint = "/analyze-screen"
        /\ pc[r] # "done" /\ pc'[r] = "done"
        /\ staged'[r] # <<>>)
       => ~exists(disk', final_path[r])]_vars

\* ======================================================================= C4
\* C4: when the upload of the k-th file of an /upload request fails, the
\* request is over with {"error": "Error uploading file <k-th name>: <msg>"},
\* exactly k files were staged and sent, and the model was not called.
C4_UploadFailureAborts ==
  \A r \in Requests :
    (/\ req[r].endpoint = "/upload"
     /\ upload_calls[r] # <<>>
     /\ ~Last(upload_calls[r]).ok) =>
      LET k == Len(upload_calls[r])
          body == response[r].body
      IN /\ pc[r] = "done"
         /\ response[r].status = 200
         /\ response[r].kind = "error"
         /\ Last(upload_calls[r]).file = k
         /\ Len(body) = Len(req[r].files[k]) + 3
         /\ SubSeq(body, 1, Len(body) - 1) =
              <<"Error uploading file ">> \o req[r].files[k] \o <<": ">>
         /\ Len(staged[r]) = k
         /\ gen_calls[r] = <<>>

\* the first of two files fails: the second is never staged
C4_Witness ==
  \E r \in Requests :
    /\ req[r].endpoint = "/upload"
    /\ Len(req[r].files) = 2
    /\ req[r].files[1] # req[r].files[2]
    /\ Len(upload_calls[r]) = 1
    /\ ~upload_calls[r][1].ok
    /\ pc[r] = "done"

\* ======================================================================= C5
\* C5: the generation call of /upload is made once, with the references the N
\* uploads returned, in the order of the files, then "\n\n", then the prompt.
C5_ContentsInOrder ==
  \A r \in Requests :
    (req[r].endpoint = "/upload" /\ gen_calls[r] # <<>>) =>
      LET c == gen_calls[r][1].contents
          N == Len(req[r].files)
      IN /\ Len(gen_calls[r]) = 1
         /\ Len(upload_calls[r]) = N
         /\ Len(c) = N + 2
         /\ \A i \in 1..N :
              /\ upload_calls[r][i].ok
              /\ upload_calls[r][i].file = i
              /\ upload_calls[r][i].ref.id = <<r, i>>
              /\ c[i] = [kind |-> "file", ref |-> upload_calls[r][i].ref]
         /\ c[N + 1] = [kind |-> "text", text |-> <<"\n\n">>]
         /\ c[N + 2] = [kind |-> "text", text |-> req[r].prompt]

\* two different files, one of them renamed to .txt, both sent to the model
C5_Witness ==
  \E r \in Requests :
    /\ req[r].endpoint = "/upload"
    /\ req[r].files = << <<"a",".","P","Y">>, <<"a",".","t","x","t">> >>
    /\ Len(gen_calls[r]) = 1
    /\ response[r].kind = "reply"

\* ======================================================================= C8
\* C8: a request to /ask, /upload or /analyze-screen ends with 200 and a reply,
\* 200 and an error, or 401.
C8_ThreeOutcomes ==
  \A r \in Requests :
    (req[r].endpoint \in GenEndpoints /\ pc[r] = "done") =>
      \/ response[r].status = 200 /\ response[r].kind = "reply"
      \/ response[r].status = 200 /\ response[r].kind = "error"
      \/ response[r].status = 401 /\ response[r].kind = "detail"

\* ======================================================================= C9
\* C9: a staging write leaves the writer's bytes at the path, whatever another
\* request had put there, and an upload sends the bytes that are at the path
\* when it is made: a request can send bytes another request submitted.
C9_StagingShared ==
  [][\A r \in Requests :
       /\ Len(staged'[r]) > Len(staged[r]) =>
            /\ exists(disk', Last(staged'[r]))
            /\ disk'[Last(staged'[r])][1] = r
       /\ (Len(upload_calls'[r]) > Len(upload_calls[r])
           /\ exists(disk, Last(upload_calls'[r]).ref.path)) =>
            Last(upload_calls'[r]).ref.data =
              disk[Last(upload_calls'[r]).ref.path]]_vars

\* a request got its reply after sending bytes written by the other request
C9_Witness ==
  \E r \in Requests : \E k \in DOMAIN upload_calls[r] :
    /\ upload_calls[r][k].ok
    /\ upload_calls[r][k].ref.data[1] # r
    /\ upload_calls[r][k].ref.path \in {staged[r][i] : i \in DOMAIN staged[r]}
    /\ response[r].kind = "reply"

\* ====================================================================== C10
\* C10: /analyze-screen replies only when its own unlink found and removed
\* the screenshot; when the generation call succeeded and the unlink found no
\* file, the answer is an error.
C10_ReplyOnlyAfterOwnDelete ==
  \A r \in Requests :
    (req[r].endpoint = "/analyze-screen" /\ pc[r] = "done") =>
      /\ response[r].kind = "reply" =>
           unlink_calls[r] =
             << [path |-> screenshot_(req[r].files[1]), existed |-> TRUE] >>
      /\ (/\ gen_calls[r] # <<>> /\ gen_calls[r][1].ok
          /\ unlink_calls[r] # <<>> /\ ~unlink_calls[r][1].existed)
         => response[r].kind = "error"

\* the other request removed the screenshot first: error, after a generation
\* call that succeeded
C10_Witness ==
  \E r \in Requests :
    /\ req[r].endpoint = "/analyze-screen"
    /\ pc[r] = "done"
    /\ gen_calls[r] # <<>> /\ gen_calls[r][1].ok
    /\ unlink_calls[r] # <<>> /\ ~unlink_calls[r][1].existed
    /\ response[r].kind = "error"

====
